---- MODULE Spec2Model ----
(***************************************************************************)
(* A model of pywrap's Cython wrapper generator.                           *)
(*                                                                         *)
(*   src/pywrap/exporter.py    the two visitors (CythonDeclarationExporter,*)
(*                             CythonImplementationExporter) and the       *)
(*                             callable builders (FunctionDefinition ...)  *)
(*   src/pywrap/cython.py      make_cython_wrapper / write_cython_wrapper  *)
(*   src/pywrap/cpptypeconv.py typename and its four rewriting steps       *)
(*                                                                         *)
(* Four specifications share the module:                                   *)
(*   Spec          the two exporters visiting one entity tree              *)
(*   SpecBuilder   FunctionDefinition._create_type_converters on one       *)
(*                 argument list                                           *)
(*   SpecTypename  typename on one raw type string                         *)
(*   SpecWrapper   write_cython_wrapper on one (filenames, modulename)     *)
(* Text is a sequence of one-character strings wherever the code looks     *)
(* inside it (typename, _derive_module_name_from); names that the code     *)
(* only copies are atomic strings.  The templates (templates.py) are not   *)
(* part of the sources: an emitted block is the record handed to render.   *)
(***************************************************************************)
EXTENDS Integers, Sequences, FiniteSets, TLC

VARIABLES
    \* ---- Spec: the exporters ----
    ast,        \* the entity tree, as its nodes in visiting order
    dpos,       \* number of visit calls the declaration pass has made
    ipos,       \* number of visit calls the implementation pass has made
    cde,        \* the CythonDeclarationExporter object
    cie,        \* the CythonImplementationExporter object
    warnings,   \* the warnings.warn calls made so far, in order
    includes,   \* the includes object both exporters are constructed with
    escaped,    \* the exception that left a visit call of the implementation
                \* pass and ended its traversal, or None
    \* ---- SpecBuilder ----
    fd,         \* the FunctionDefinition under construction
    \* ---- SpecTypename ----
    tn,         \* typename's input and results
    \* ---- SpecWrapper ----
    wr          \* write_cython_wrapper's frame and the file system

vars == <<ast, dpos, ipos, cde, cie, warnings, includes, escaped, fd, tn, wr>>

None == "None"

\* ------------------------------------------------------------------ bounds

\* Entities and members of one entity tree.
MaxNodes == 4
\* Declared parameters of the callable handed to the callable builder.
MaxArgs == 3
\* Pieces a raw type string is put together from.
MaxPieces == 4
\* Pieces a file name is put together from.
MaxNameLen == 3
\* Input files of one run.
MaxFiles == 2

\* ------------------------------------------------------------- sequences

Last(s) == s[Len(s)]

RECURSIVE Concat(_)
Concat(ss) ==
    IF ss = <<>> THEN <<>> ELSE Head(ss) \o Concat(Tail(ss))

RECURSIVE SumSeq(_)
SumSeq(s) ==
    IF s = <<>> THEN 0 ELSE Head(s) + SumSeq(Tail(s))

Range(s) == {s[i] : i \in DOMAIN s}

\* ------------------------------------------------------- the entity tree
\* The parser's classes (Clazz, Field, Constructor, Method, Function, Param,
\* Enum, Typedef) and their accept methods are not part of the sources.  A
\* tree is the sequence of its nodes in the order accept visits them: the
\* members of a class (fields, constructors, methods), then the class.

Param(n, t) == [name |-> n, tipe |-> t]

\* pointer-to-scalar followed by an integral count: the array+length pattern
ArrayArgs(x) == <<Param("a" \o x, "double *"), Param("n" \o x, "unsigned int")>>

BadArgs(x) == <<Param("b" \o x, "Bad")>>

\* the names of a node are numbered by its place in the tree
Suffix(t) == ToString(Len(t) + 1)

NumClasses(t) == Cardinality({i \in DOMAIN t : t[i].kind = "class"})

CurClass(t) == "K" \o ToString(NumClasses(t) + 1)

Rank(kind) ==
    CASE kind = "field" -> 1
      [] kind = "constructor" -> 2
      [] kind = "method" -> 3
      [] OTHER -> 0

\* members have been visited whose class has not
Open(t) == t # <<>> /\ Rank(Last(t).kind) > 0

LastRank(t) == IF Open(t) THEN Rank(Last(t).kind) ELSE 0

FieldNodes(t) ==
    {[kind |-> "field", name |-> "f" \o Suffix(t), tipe |-> ty,
      class_name |-> CurClass(t)] : ty \in {"double", "Bad"}}

CtorNodes(t) ==
    {[kind |-> "constructor", name |-> CurClass(t), class_name |-> CurClass(t),
      arguments |-> a] : a \in {ArrayArgs(Suffix(t)), BadArgs(Suffix(t))}}

MethodNodes(t) ==
    {[kind |-> "method", name |-> "m" \o Suffix(t), class_name |-> CurClass(t),
      arguments |-> <<Param("v" \o Suffix(t), "double")>>,
      result_type |-> "double"],
     [kind |-> "method", name |-> "m" \o Suffix(t), class_name |-> CurClass(t),
      arguments |-> <<>>, result_type |-> "Bad"],
     [kind |-> "method", name |-> "operator()", class_name |-> CurClass(t),
      arguments |-> <<>>, result_type |-> "void"]}

FunctionNodes(t) ==
    {[kind |-> "function", name |-> "g" \o Suffix(t), arguments |-> a,
      result_type |-> "void"] : a \in {ArrayArgs(Suffix(t)), BadArgs(Suffix(t))}}

ClassNode(t) == [kind |-> "class", name |-> CurClass(t)]

EnumNode(t) == [kind |-> "enum", name |-> "E" \o Suffix(t)]

TypedefNode(t) ==
    [kind |-> "typedef", tipe |-> "T" \o Suffix(t), underlying_type |-> "double"]

NextNodes(t) ==
    (IF LastRank(t) <= 1 THEN FieldNodes(t) ELSE {})
    \cup (IF LastRank(t) <= 2 THEN CtorNodes(t) ELSE {})
    \cup MethodNodes(t)
    \cup {ClassNode(t)}
    \cup (IF Open(t) THEN {} ELSE FunctionNodes(t) \cup {EnumNode(t), TypedefNode(t)})

RECURSIVE Grow(_, _)
Grow(S, n) ==
    IF n = 0 THEN S
    ELSE Grow(S \cup {Append(t, nd) : <<t, nd>> \in
                        UNION {{<<t, nd>> : nd \in NextNodes(t)} : t \in S}},
              n - 1)

Asts == {t \in Grow({<<>>}, MaxNodes) : ~Open(t)}

IsCallable(node) == node.kind \in {"constructor", "method", "function"}

\* accept: a callable's parameters are visited before the callable
NodeEvents(node) ==
    IF IsCallable(node)
    THEN [i \in 1..Len(node.arguments) |->
            [visit |-> "param", obj |-> node.arguments[i]]]
         \o <<[visit |-> node.kind, obj |-> node]>>
    ELSE <<[visit |-> node.kind, obj |-> node]>>

Events(t) == Concat([i \in DOMAIN t |-> NodeEvents(t[i])])

\* _collect_classes: the recognised class names
Classes(t) == {t[i].name : i \in {j \in DOMAIN t : t[j].kind = "class"}}

\* ------------------------------------------- converter registry (§4.2)
\* pywrap.type_conversion is not part of the sources; create_type_converter
\* follows the selection policy of the specification, in priority order.

ScalarTypes == {"int", "unsigned int", "long", "unsigned long", "float", "double"}

AutoTypes == {"bool", "string"}

VoidTypes == {None, "void"}

\* context is (arguments, index) for an input argument and NoContext for a
\* result
NoContext == <<>>

IsArrayPattern(tipe, context) ==
    /\ context # NoContext
    /\ tipe = "double *"
    /\ Len(context[1]) >= context[2] + 1
    /\ context[1][context[2] + 1].tipe = "unsigned int"

create_type_converter(tipe, argname, type_info, context) ==
    LET tc(variant, n) == [variant |-> variant, tipe |-> tipe,
                           argname |-> argname, n_cpp_args |-> n,
                           index |-> IF context = NoContext THEN 0
                                     ELSE context[2]]
    IN  IF tipe \in ScalarTypes THEN tc("Scalar", 1)
        ELSE IF tipe \in AutoTypes THEN tc("AutoConvertible", 1)
        ELSE IF IsArrayPattern(tipe, context) THEN tc("ArrayPointer", 2)
        ELSE IF tipe \in type_info THEN tc("OpaqueClass", 1)
        ELSE IF context = NoContext /\ tipe \in VoidTypes THEN tc("Void", 1)
        ELSE tc("Unsupported", 0)

\* the NotImplementedError a failed selection raises: its message names the
\* type and the site
Unsupported(tc) == tc.variant = "Unsupported"

Message(tc) ==
    [tipe |-> tc.tipe,
     site |-> IF tc.argname = None THEN "return type" ELSE tc.argname]

\* ---------------------------------------------- callable builders
\* A FunctionDefinition object inside __init__: i is the index the for loop
\* of _create_type_converters is at (from 1), raised = TRUE when a
\* NotImplementedError left it (no object is built then); added is what
\* add_includes was called with, in order.

FD_init(arguments, result_type) ==
    [arguments |-> arguments, result_type |-> result_type, i |-> 1, skip |-> 0,
     type_converters |-> <<>>, output_type_converter |-> None,
     added |-> <<>>, raised |-> FALSE, message |-> None, pc |-> "loop"]

\* (mutant) nothing is skipped after a converter
SkipAfter_Nothing(type_converter) == 0

\* skip = type_converter.n_cpp_args() - 1
SkipAfter(type_converter) == type_converter.n_cpp_args - 1

\* if skip > 0: skip -= 1; continue
FD_skip(self) == [self EXCEPT !.skip = @ - 1, !.i = @ + 1]

\* the rest of the loop body, for arguments[i]
FD_convert(self, type_info) ==
    LET type_converter ==
            create_type_converter(self.arguments[self.i].tipe,
                                  self.arguments[self.i].name, type_info,
                                  <<self.arguments, self.i>>)
    IN  IF Unsupported(type_converter)
        THEN [self EXCEPT !.raised = TRUE, !.message = Message(type_converter),
                          !.pc = "raised"]
        ELSE [self EXCEPT !.type_converters = Append(@, type_converter),
                          !.added = Append(@, type_converter.tipe),
                          !.skip = SkipAfter(type_converter),
                          !.i = @ + 1]

\* after the loop: the converter of the result
FD_output(self, type_info) ==
    LET out == create_type_converter(self.result_type, None, type_info, NoContext)
    IN  IF Unsupported(out)
        THEN [self EXCEPT !.raised = TRUE, !.message = Message(out),
                          !.pc = "raised"]
        ELSE [self EXCEPT !.output_type_converter = out,
                          !.added = Append(@, out.tipe), !.pc = "built"]

FD_step(self, type_info) ==
    IF self.i > Len(self.arguments) THEN FD_output(self, type_info)
    ELSE IF self.skip > 0 THEN FD_skip(self)
    ELSE FD_convert(self, type_info)

RECURSIVE FD_run(_, _)
FD_run(self, type_info) ==
    IF self.pc # "loop" THEN self ELSE FD_run(FD_step(self, type_info), type_info)

_create_type_converters(arguments, result_type, type_info) ==
    FD_run(FD_init(arguments, result_type), type_info)

\* defaultconfig is not part of the sources: the two operator tables hold the
\* call operator
InCallOperators == {"operator()"}

\* config.call_operators.get(name, name)
call_operators(name) == IF name \in InCallOperators THEN "call" ELSE name

\* config.operators.get(name, name)
operators(name) == IF name = "operator()" THEN "__call__" ELSE name

\* _def_prefix: names that start and end with a double underscore
SpecialMethodNames == {"__init__", "__call__"}

_def_prefix(function_name) ==
    IF function_name \in SpecialMethodNames THEN "def" ELSE "cpdef"

\* python_type_decl / cpp_call_args of one converter
python_type_decl(tc) == [name |-> tc.argname, variant |-> tc.variant]

cpp_call_args(tc) ==
    IF tc.variant = "ArrayPointer"
    THEN <<"&" \o tc.argname \o "_array[0]", tc.argname \o "_array.shape[0]">>
    ELSE <<"cpp_" \o tc.argname>>

\* FunctionDefinition.make and its overrides: form selects _call_cpp_function
\* ("fun_call", "ctor_call", "method_call", "setter_call", "getter_call").
\* The identifiers of the model are lower case already, so from_camel_case
\* leaves them as they are.
make(form, name, callee, initial_args, output_is_copy, built) ==
    LET function_name == operators(name)
        tcs == built.type_converters
    IN  [form |-> form,
         name |-> function_name,
         def_prefix |-> _def_prefix(function_name),
         args |-> initial_args \o [i \in DOMAIN tcs |-> python_type_decl(tcs[i])],
         callee |-> callee,
         call_args |-> Concat([i \in DOMAIN tcs |-> cpp_call_args(tcs[i])]),
         catch_result |-> built.output_type_converter.variant # "Void",
         output_is_copy |-> output_is_copy]

Self(class_name) == <<[name |-> "self", variant |-> class_name]>>

FunctionDefinition(function, type_info) ==
    LET built == _create_type_converters(function.arguments,
                                         function.result_type, type_info)
    IN  [raised |-> built.raised, message |-> built.message, added |-> built.added,
         def |-> IF built.raised THEN None
                 ELSE make("fun_call", function.name, function.name, <<>>,
                           TRUE, built)]

ConstructorDefinition(ctor, type_info) ==
    LET built == _create_type_converters(ctor.arguments, None, type_info)
    IN  [raised |-> built.raised, message |-> built.message, added |-> built.added,
         def |-> IF built.raised THEN None
                 ELSE make("ctor_call", "__init__", ctor.class_name,
                           Self(ctor.class_name), TRUE, built)]

MethodDefinition(method, type_info) ==
    LET built == _create_type_converters(method.arguments, method.result_type,
                                         type_info)
    IN  [raised |-> built.raised, message |-> built.message, added |-> built.added,
         def |-> IF built.raised THEN None
                 ELSE make("method_call", method.name,
                           call_operators(method.name),
                           Self(method.class_name), TRUE, built)]

SetterDefinition(field, type_info) ==
    LET built == _create_type_converters(<<Param(field.name, field.tipe)>>,
                                         "void", type_info)
    IN  [raised |-> built.raised, message |-> built.message, added |-> built.added,
         def |-> IF built.raised THEN None
                 ELSE make("setter_call", "set_" \o field.name, field.name,
                           Self(field.class_name), TRUE, built)]

GetterDefinition(field, type_info) ==
    LET built == _create_type_converters(<<>>, field.tipe, type_info)
    IN  [raised |-> built.raised, message |-> built.message, added |-> built.added,
         def |-> IF built.raised THEN None
                 ELSE make("getter_call", "get_" \o field.name, field.name,
                           Self(field.class_name), FALSE, built)]

\* ------------------------------------------ CythonDeclarationExporter
\* Each visit method is an operator from the exporter object (self) and the
\* visited node to the exporter object after the call.

\* __init__
CDE_init ==
    [output |-> <<>>, ctors |-> <<>>, methods |-> <<>>, arguments |-> <<>>,
     fields |-> <<>>]

CDE_visit_enum(self, enum) ==
    [self EXCEPT !.output = Append(@, [block |-> "enum_decl", name |-> enum.name])]

CDE_visit_typedef(self, typedef) ==
    [self EXCEPT !.output = Append(@, [block |-> "typedef_decl",
                                       tipe |-> typedef.tipe,
                                       underlying_type |-> typedef.underlying_type])]

\* (mutant) self.methods = [] is missing
CDE_reset_MethodsKept(self) == [self EXCEPT !.fields = <<>>, !.ctors = <<>>]

\* the three buffers are emptied after the class block is rendered
CDE_reset(self) ==
    [self EXCEPT !.fields = <<>>, !.ctors = <<>>, !.methods = <<>>]

\* (mutant) empty_body is computed without the constructors
CDE_visit_class_CtorsUncounted(self, clazz) ==
    CDE_reset(
      [self EXCEPT !.output = Append(@,
         [block |-> "class_decl", name |-> clazz.name,
          fields |-> self.fields, ctors |-> self.ctors,
          methods |-> self.methods,
          empty_body |-> (Len(self.fields) + Len(self.methods) = 0)])])

CDE_visit_class(self, clazz) ==
    CDE_reset(
      [self EXCEPT !.output = Append(@,
         [block |-> "class_decl", name |-> clazz.name,
          fields |-> self.fields, ctors |-> self.ctors,
          methods |-> self.methods,
          empty_body |-> (Len(self.fields) + Len(self.methods)
                          + Len(self.ctors) = 0)])])

CDE_visit_field(self, field) ==
    [self EXCEPT !.fields = Append(@, [name |-> field.name, tipe |-> field.tipe,
                                       class_name |-> field.class_name])]

CDE_visit_constructor(self, ctor) ==
    [self EXCEPT !.ctors = Append(@, [name |-> ctor.name,
                                      class_name |-> ctor.class_name,
                                      args |-> self.arguments]),
                 !.arguments = <<>>]

\* (mutant) the operator is declared under its C++ name
replace_operator_decl_Unrenamed(method_name) ==
    [decl |-> method_name, cname |-> method_name]

\* replace_operator_decl: the text <decl> "<cname>" declares the Cython name
\* decl for the C++ name cname, and a plain name declares itself
replace_operator_decl(method_name) ==
    IF method_name \in InCallOperators
    THEN [decl |-> call_operators(method_name), cname |-> method_name]
    ELSE [decl |-> method_name, cname |-> method_name]

\* (mutant) a method whose result type no converter takes is left out
CDE_visit_method_Convertible(self, method) ==
    IF method.result_type = "Bad" THEN [self EXCEPT !.arguments = <<>>]
    ELSE [self EXCEPT !.methods = Append(@, [name |-> [decl |-> method.name,
                                                      cname |-> method.name],
                                            class_name |-> method.class_name,
                                            result_type |-> method.result_type,
                                            args |-> self.arguments]),
                      !.arguments = <<>>]

CDE_visit_method(self, method) ==
    [self EXCEPT !.methods = Append(@, [name |-> replace_operator_decl(method.name),
                                        class_name |-> method.class_name,
                                        result_type |-> method.result_type,
                                        args |-> self.arguments]),
                 !.arguments = <<>>]

CDE_visit_function(self, function) ==
    [self EXCEPT !.output = Append(@, [block |-> "function_decl",
                                       name |-> function.name,
                                       result_type |-> function.result_type,
                                       args |-> self.arguments]),
                 !.arguments = <<>>]

CDE_visit_param(self, param) ==
    [self EXCEPT !.arguments = Append(@, [name |-> param.name,
                                          tipe |-> param.tipe])]

\* --------------------------------------- CythonImplementationExporter
\* A visit method that builds a callable returns the exporter object after
\* the call, the warnings it issued and what it added to includes.

CIE_init == [output |-> <<>>, ctors |-> <<>>, methods |-> <<>>, fields |-> <<>>]

Result(self, warned, added) ==
    [self |-> self, warned |-> warned, added |-> added, escaped |-> None]

CIE_visit_enum(self, enum) ==
    Result([self EXCEPT !.output = Append(@, [block |-> "enum", name |-> enum.name])],
           <<>>, <<>>)

CIE_visit_typedef(self, typedef) == Result(self, <<>>, <<>>)

CIE_visit_param(self, param) == Result(self, <<>>, <<>>)

MultipleConstructors(clazz) ==
    [warning |-> "more than one constructor", name |-> clazz.name]

ctor_default_def(clazz) == [form |-> "ctor_default", callee |-> clazz.name]

\* (mutant) no default constructor is synthesized
CIE_ctors_NoDefault(self, clazz) == self.ctors

\* the constructors of the class block: a default one when none was kept
CIE_ctors(self, clazz) ==
    IF Len(self.ctors) = 0 THEN <<ctor_default_def(clazz)>> ELSE self.ctors

CIE_reset(self) ==
    [self EXCEPT !.fields = <<>>, !.ctors = <<>>, !.methods = <<>>]

CIE_visit_class(self, clazz) ==
    Result(CIE_reset(
             [self EXCEPT !.output = Append(@,
                [block |-> "class", name |-> clazz.name,
                 fields |-> self.fields, ctors |-> CIE_ctors(self, clazz),
                 methods |-> self.methods])]),
           IF Len(self.ctors) > 1 THEN <<MultipleConstructors(clazz)>> ELSE <<>>,
           <<>>)

\* warnings.warn(e.message + " Ignoring <what> '<name>'")
Ignoring(message, what, name) ==
    [warning |-> "Ignoring " \o what, name |-> name, message |-> message]

CIE_visit_field(self, field, type_info) ==
    LET setter == SetterDefinition(field, type_info)
        getter == GetterDefinition(field, type_info)
    IN  IF setter.raised
        THEN Result(self, <<Ignoring(setter.message, "field", field.name)>>,
                    setter.added)
        ELSE IF getter.raised
        THEN Result(self, <<Ignoring(getter.message, "field", field.name)>>,
                    setter.added \o getter.added)
        ELSE Result([self EXCEPT !.fields = Append(@,
                        [name |-> field.name, class_name |-> field.class_name,
                         getter |-> getter.def, setter |-> setter.def])],
                    <<>>, setter.added \o getter.added)

CIE_visit_constructor(self, ctor, type_info) ==
    LET d == ConstructorDefinition(ctor, type_info)
    IN  IF d.raised
        THEN Result(self, <<Ignoring(d.message, "method", ctor.name)>>, d.added)
        ELSE Result([self EXCEPT !.ctors = Append(@, d.def)], <<>>, d.added)

\* (mutant) no try/except around the builder: the error leaves the visitor
CIE_visit_method_Uncaught(self, method, type_info) ==
    LET d == MethodDefinition(method, type_info)
    IN  IF d.raised
        THEN [self |-> self, warned |-> <<>>, added |-> d.added,
              escaped |-> "NotImplementedError"]
        ELSE Result([self EXCEPT !.methods = Append(@, d.def)], <<>>, d.added)

CIE_visit_method(self, method, type_info) ==
    LET d == MethodDefinition(method, type_info)
    IN  IF d.raised
        THEN Result(self, <<Ignoring(d.message, "method", method.name)>>, d.added)
        ELSE Result([self EXCEPT !.methods = Append(@, d.def)], <<>>, d.added)

CIE_visit_function(self, function, type_info) ==
    LET d == FunctionDefinition(function, type_info)
    IN  IF d.raised
        THEN Result(self, <<Ignoring(d.message, "function", function.name)>>,
                    d.added)
        ELSE Result([self EXCEPT !.output = Append(@, [block |-> "function",
                                                        def |-> d.def])],
                    <<>>, d.added)

\* ------------------------------------------------ Spec: the two passes
\* ast.accept(exporter) calls the visit methods in the order of Events(ast).
\* The passes share the tree and the includes object; the specification lets
\* their visit calls interleave, each pass in its own source order.

exportVars == <<ast, dpos, ipos, cde, cie, warnings, includes, escaped>>

Idle == <<>>

DeclEvent == Events(ast)[dpos + 1]

ImplEvent == Events(ast)[ipos + 1]

DeclAt(visit) == dpos < Len(Events(ast)) /\ DeclEvent.visit = visit

ImplAt(visit) ==
    escaped = None /\ ipos < Len(Events(ast)) /\ ImplEvent.visit = visit

DeclStep(after) ==
    /\ cde' = after
    /\ dpos' = dpos + 1
    /\ UNCHANGED <<ast, ipos, cie, warnings, includes, escaped, fd, tn, wr>>

ImplStep(r) ==
    /\ cie' = r.self
    /\ warnings' = warnings \o r.warned
    /\ includes' = includes \o r.added
    /\ escaped' = r.escaped
    /\ ipos' = IF r.escaped = None THEN ipos + 1 ELSE ipos
    /\ UNCHANGED <<ast, dpos, cde, fd, tn, wr>>

DeclVisitEnum == DeclAt("enum") /\ DeclStep(CDE_visit_enum(cde, DeclEvent.obj))

DeclVisitTypedef ==
    DeclAt("typedef") /\ DeclStep(CDE_visit_typedef(cde, DeclEvent.obj))

\* (mutant) the buffers are lists that the two exporters share: emptying
\* them in one pass empties them in the other
DeclVisitClass_SharedBuffers ==
    /\ DeclAt("class")
    /\ cde' = CDE_visit_class(cde, DeclEvent.obj)
    /\ cie' = [cie EXCEPT !.fields = <<>>, !.ctors = <<>>, !.methods = <<>>]
    /\ dpos' = dpos + 1
    /\ UNCHANGED <<ast, ipos, warnings, includes, escaped, fd, tn, wr>>

DeclVisitClass == DeclAt("class") /\ DeclStep(CDE_visit_class(cde, DeclEvent.obj))

DeclVisitField == DeclAt("field") /\ DeclStep(CDE_visit_field(cde, DeclEvent.obj))

DeclVisitConstructor ==
    DeclAt("constructor") /\ DeclStep(CDE_visit_constructor(cde, DeclEvent.obj))

DeclVisitMethod ==
    DeclAt("method") /\ DeclStep(CDE_visit_method(cde, DeclEvent.obj))

DeclVisitFunction ==
    DeclAt("function") /\ DeclStep(CDE_visit_function(cde, DeclEvent.obj))

DeclVisitParam == DeclAt("param") /\ DeclStep(CDE_visit_param(cde, DeclEvent.obj))

ImplVisitEnum == ImplAt("enum") /\ ImplStep(CIE_visit_enum(cie, ImplEvent.obj))

ImplVisitTypedef ==
    ImplAt("typedef") /\ ImplStep(CIE_visit_typedef(cie, ImplEvent.obj))

ImplVisitClass == ImplAt("class") /\ ImplStep(CIE_visit_class(cie, ImplEvent.obj))

ImplVisitField ==
    ImplAt("field") /\ ImplStep(CIE_visit_field(cie, ImplEvent.obj, Classes(ast)))

ImplVisitConstructor ==
    /\ ImplAt("constructor")
    /\ ImplStep(CIE_visit_constructor(cie, ImplEvent.obj, Classes(ast)))

ImplVisitMethod ==
    ImplAt("method") /\ ImplStep(CIE_visit_method(cie, ImplEvent.obj, Classes(ast)))

ImplVisitFunction ==
    /\ ImplAt("function")
    /\ ImplStep(CIE_visit_function(cie, ImplEvent.obj, Classes(ast)))

ImplVisitParam == ImplAt("param") /\ ImplStep(CIE_visit_param(cie, ImplEvent.obj))

Init ==
    /\ ast \in Asts
    /\ dpos = 0
    /\ ipos = 0
    /\ cde = CDE_init
    /\ cie = CIE_init
    /\ warnings = <<>>
    /\ includes = <<>>
    /\ escaped = None
    /\ fd = Idle
    /\ tn = Idle
    /\ wr = Idle

Next ==
    \/ DeclVisitEnum
    \/ DeclVisitTypedef
    \/ DeclVisitClass
    \/ DeclVisitField
    \/ DeclVisitConstructor
    \/ DeclVisitMethod
    \/ DeclVisitFunction
    \/ DeclVisitParam
    \/ ImplVisitEnum
    \/ ImplVisitTypedef
    \/ ImplVisitClass
    \/ ImplVisitField
    \/ ImplVisitConstructor
    \/ ImplVisitMethod
    \/ ImplVisitFunction
    \/ ImplVisitParam

Spec == Init /\ [][Next]_vars

DeclDone == dpos = Len(Events(ast))

ImplDone == ipos = Len(Events(ast))

\* ---------------------------------------------------------- SpecBuilder
\* FunctionDefinition.__init__ on one argument list and result type, one
\* loop iteration per step.

BuilderTypes == {"double", "double *", "unsigned int", "Klass", "Bad"}

BuilderResults == {None, "void", "double", "Klass", "Bad"}

BuilderClasses == {"Klass"}

ArgLists ==
    UNION {{[i \in 1..n |-> Param("p" \o ToString(i), f[i])] :
              f \in [1..n -> BuilderTypes]} : n \in 0..MaxArgs}

BuilderStep(after) ==
    /\ fd' = after
    /\ UNCHANGED <<exportVars, tn, wr>>

InLoop == fd # Idle /\ fd.pc = "loop" /\ fd.i <= Len(fd.arguments)

LoopSkip == InLoop /\ fd.skip > 0 /\ BuilderStep(FD_skip(fd))

LoopConvert ==
    InLoop /\ fd.skip = 0 /\ BuilderStep(FD_convert(fd, BuilderClasses))

OutputConverter ==
    /\ fd # Idle
    /\ fd.pc = "loop"
    /\ fd.i > Len(fd.arguments)
    /\ BuilderStep(FD_output(fd, BuilderClasses))

NoExport ==
    /\ ast = <<>>
    /\ dpos = 0
    /\ ipos = 0
    /\ cde = CDE_init
    /\ cie = CIE_init
    /\ warnings = <<>>
    /\ includes = <<>>
    /\ escaped = None

InitBuilder ==
    /\ NoExport
    /\ fd \in {FD_init(a, r) : a \in ArgLists, r \in BuilderResults}
    /\ tn = Idle
    /\ wr = Idle

NextBuilder == LoopSkip \/ LoopConvert \/ OutputConverter

SpecBuilder == InitBuilder /\ [][NextBuilder]_vars

\* --------------------------------------------------------- str methods
\* Text is a sequence of one-character strings.

RECURSIVE Replace(_, _, _)
\* str.replace(old, new): every occurrence, found left to right, none
\* overlapping another
Replace(s, old, new) ==
    IF Len(s) < Len(old) THEN s
    ELSE IF SubSeq(s, 1, Len(old)) = old
    THEN new \o Replace(SubSeq(s, Len(old) + 1, Len(s)), old, new)
    ELSE <<Head(s)>> \o Replace(Tail(s), old, new)

RECURSIVE SplitFrom(_, _, _)
SplitFrom(s, sep, cur) ==
    IF Len(s) < Len(sep) THEN <<cur \o s>>
    ELSE IF SubSeq(s, 1, Len(sep)) = sep
    THEN <<cur>> \o SplitFrom(SubSeq(s, Len(sep) + 1, Len(s)), sep, <<>>)
    ELSE SplitFrom(Tail(s), sep, Append(cur, Head(s)))

\* str.split(sep)
Split(s, sep) == SplitFrom(s, sep, <<>>)

\* ------------------------------------------------------- cpptypeconv.py

_remove_const_modifier(tname) ==
    Replace(tname, <<"c", "o", "n", "s", "t", " ">>, <<>>)

_remove_reference_modifier(tname) == Replace(tname, <<" ", "&">>, <<>>)

\* (mutant) the first segment is kept, not the last
_remove_namespace_First(tname) == Head(Split(tname, <<":", ":">>))

_remove_namespace(tname) == Last(Split(tname, <<":", ":">>))

_replace_angle_brackets(tname) ==
    Replace(Replace(tname, <<"<">>, <<"[">>), <<">">>, <<"]">>)

typename(tname) ==
    _replace_angle_brackets(
        _remove_namespace(
            _remove_reference_modifier(
                _remove_const_modifier(tname))))

\* --------------------------------------------------------- SpecTypename
\* typename on a raw type string, and once more on its result.

TypePieces ==
    {<<"c", "o", "n", "s", "t", " ">>, <<" ", "&">>, <<":", ":">>, <<" ">>,
     <<"&">>, <<"n">>, <<"v", "<">>, <<"d", ">">>}

RECURSIVE Texts(_, _)
\* the texts put together from at most n of the pieces
Texts(pieces, n) ==
    IF n = 0 THEN {<<>>}
    ELSE LET shorter == Texts(pieces, n - 1)
         IN  shorter \cup {t \o q : t \in shorter, q \in pieces}

RawTypes == Texts(TypePieces, MaxPieces)

TypenameStep(after) ==
    /\ tn' = after
    /\ UNCHANGED <<exportVars, fd, wr>>

Typename ==
    /\ tn # Idle
    /\ tn.pc = "raw"
    /\ TypenameStep([tn EXCEPT !.cython_tname = typename(tn.tname),
                               !.pc = "once"])

TypenameAgain ==
    /\ tn # Idle
    /\ tn.pc = "once"
    /\ TypenameStep([tn EXCEPT !.again = typename(tn.cython_tname),
                               !.pc = "twice"])

InitTypename ==
    /\ NoExport
    /\ fd = Idle
    /\ tn \in {[pc |-> "raw", tname |-> t, cython_tname |-> <<>>, again |-> <<>>] :
                 t \in RawTypes}
    /\ wr = Idle

NextTypename == Typename \/ TypenameAgain

SpecTypename == InitTypename /\ [][NextTypename]_vars

\* ------------------------------------------------------------ cython.py
\* A name is text; NoName is Python's None where a name may stand.

NoName == <<None>>

os_sep == <<"/">>

\* (mutant) the directory path is not stripped
_derive_module_name_from_WithPath(filename) == Head(Split(filename, <<".">>))

\* _derive_module_name_from
_derive_module_name_from(filename) ==
    Head(Split(Last(Split(filename, os_sep)), <<".">>))

\* isinstance(filenames, str): filenames = [filenames]
AsList(filenames) ==
    IF filenames.is_str THEN <<filenames.value>> ELSE filenames.value

\* the module name after lines 61-62
ModuleNameFor(filenames, modulename) ==
    IF Len(filenames) = 1 /\ modulename = NoName
    THEN _derive_module_name_from(filenames[1])
    ELSE modulename

\* (mutant) the check is missing
MissingModuleName_Unchecked(modulename) == FALSE

\* if modulename is None: raise ValueError
MissingModuleName(modulename) == modulename = NoName

pyx_filename(modulename) == modulename \o <<".", "p", "y", "x">>

pxd_filename == <<"_", "d", "e", "c", "l", "a", "r", "a", "t", "i", "o", "n", "s",
                  ".", "p", "x", "d">>

setup_py == <<"s", "e", "t", "u", "p", ".", "p", "y">>

\* ---------------------------------------------------------- SpecWrapper
\* write_cython_wrapper(filenames, modulename, target): wr holds the
\* arguments, the locals of make_cython_wrapper and the files of target.

NamePieces == {<<"d", "/">>, <<"a", ".">>, <<"h">>, <<".">>}

FileNames == Texts(NamePieces, MaxNameLen)

MoreFiles == {<<"a", ".", "h">>, <<"d", "/", "b", ".", "h">>}

FileArgs ==
    {[is_str |-> TRUE, value |-> n] : n \in FileNames}
    \cup {[is_str |-> FALSE, value |-> <<n>>] : n \in FileNames}
    \cup {[is_str |-> FALSE, value |-> l] :
            l \in UNION {[1..k -> MoreFiles] : k \in (0..MaxFiles) \ {1}}}

ModuleArgs == {NoName, <<"m">>}

WrapperStep(after) ==
    /\ wr' = after
    /\ UNCHANGED <<exportVars, fd, tn>>

WrapperAt(pc) == wr # Idle /\ wr.pc = pc

\* write_cython_wrapper, lines 12-13
MakeTargetDir ==
    /\ WrapperAt("start")
    /\ WrapperStep([wr EXCEPT !.target_exists = TRUE, !.pc = "name"])

\* make_cython_wrapper, lines 59-65
ModuleName ==
    /\ WrapperAt("name")
    /\ LET filenames == AsList(wr.filenames_arg)
           modulename == ModuleNameFor(filenames, wr.modulename_arg)
       IN  WrapperStep(
             IF MissingModuleName(modulename)
             THEN [wr EXCEPT !.filenames = filenames, !.modulename = modulename,
                             !.raised = "ValueError", !.pc = "raised"]
             ELSE [wr EXCEPT !.filenames = filenames, !.modulename = modulename,
                             !.pc = "parse"])

\* _parse_files, one iteration: the copy a header is parsed from is removed
\* again before the next file
ParseFile ==
    /\ WrapperAt("parse")
    /\ Len(wr.asts) < Len(wr.filenames)
    /\ WrapperStep([wr EXCEPT !.asts = Append(@, wr.filenames[Len(wr.asts) + 1])])

\* lines 68-74. _generate_extension constructs a CythonImplementationExporter
\* for each ast with two arguments, and __init__ takes three: the call raises
\* TypeError, so only a run without asts gets past it.
GenerateExtension ==
    /\ WrapperAt("parse")
    /\ Len(wr.asts) = Len(wr.filenames)
    /\ WrapperStep(
         IF Len(wr.asts) > 0
         THEN [wr EXCEPT !.raised = "TypeError", !.pc = "raised"]
         ELSE [wr EXCEPT !.results = @ \cup {pyx_filename(wr.modulename)},
                         !.files_to_cythonize = <<pyx_filename(wr.modulename)>>,
                         !.pc = "declarations"])

\* lines 76-81; CythonDeclarationExporter() raises TypeError in the same way
GenerateDeclarations ==
    /\ WrapperAt("declarations")
    /\ WrapperStep(
         IF Len(wr.asts) > 0
         THEN [wr EXCEPT !.raised = "TypeError", !.pc = "raised"]
         ELSE [wr EXCEPT !.results = @ \cup {pxd_filename, setup_py},
                         !.pc = "write"])

\* write_files
WriteFiles ==
    /\ WrapperAt("write")
    /\ WrapperStep([wr EXCEPT !.written = @ \cup wr.results, !.pc = "cython"])

\* cython
Cython ==
    /\ WrapperAt("cython")
    /\ WrapperStep([wr EXCEPT !.cythonized = Range(wr.files_to_cythonize),
                              !.pc = "done"])

InitWrapper ==
    /\ NoExport
    /\ fd = Idle
    /\ tn = Idle
    /\ wr \in {[pc |-> "start", filenames_arg |-> f, modulename_arg |-> m,
                target_exists |-> e, filenames |-> <<>>, modulename |-> m,
                asts |-> <<>>, results |-> {}, files_to_cythonize |-> <<>>,
                written |-> {}, cythonized |-> {}, raised |-> None] :
                 f \in FileArgs, m \in ModuleArgs, e \in BOOLEAN}

NextWrapper ==
    \/ MakeTargetDir
    \/ ModuleName
    \/ ParseFile
    \/ GenerateExtension
    \/ GenerateDeclarations
    \/ WriteFiles
    \/ Cython

SpecWrapper == InitWrapper /\ [][NextWrapper]_vars

\* ------------------------------------------------ one pass on its own
\* The exporter after the visit calls of a sequence of events, made one
\* after the other with nothing in between.

CDE_visit(self, ev) ==
    CASE ev.visit = "enum" -> CDE_visit_enum(self, ev.obj)
      [] ev.visit = "typedef" -> CDE_visit_typedef(self, ev.obj)
      [] ev.visit = "class" -> CDE_visit_class(self, ev.obj)
      [] ev.visit = "field" -> CDE_visit_field(self, ev.obj)
      [] ev.visit = "constructor" -> CDE_visit_constructor(self, ev.obj)
      [] ev.visit = "method" -> CDE_visit_method(self, ev.obj)
      [] ev.visit = "function" -> CDE_visit_function(self, ev.obj)
      [] ev.visit = "param" -> CDE_visit_param(self, ev.obj)

CIE_visit(self, ev, type_info) ==
    CASE ev.visit = "enum" -> CIE_visit_enum(self, ev.obj)
      [] ev.visit = "typedef" -> CIE_visit_typedef(self, ev.obj)
      [] ev.visit = "class" -> CIE_visit_class(self, ev.obj)
      [] ev.visit = "field" -> CIE_visit_field(self, ev.obj, type_info)
      [] ev.visit = "constructor" -> CIE_visit_constructor(self, ev.obj, type_info)
      [] ev.visit = "method" -> CIE_visit_method(self, ev.obj, type_info)
      [] ev.visit = "function" -> CIE_visit_function(self, ev.obj, type_info)
      [] ev.visit = "param" -> CIE_visit_param(self, ev.obj)

RECURSIVE DeclPass(_, _)
DeclPass(self, events) ==
    IF events = <<>> THEN self
    ELSE DeclPass(CDE_visit(self, Head(events)), Tail(events))

RECURSIVE ImplPass(_, _, _)
\* acc holds the exporter, the warnings and the includes so far
ImplPass(acc, events, type_info) ==
    IF events = <<>> THEN acc
    ELSE LET r == CIE_visit(acc.self, Head(events), type_info)
         IN  ImplPass([self |-> r.self, warned |-> acc.warned \o r.warned,
                       added |-> acc.added \o r.added],
                      Tail(events), type_info)

ImplStart == [self |-> CIE_init, warned |-> <<>>, added |-> <<>>]

\* =============================================================== claims
\* What the claims speak of, read off the tree and the two artifacts.

MemberKinds == {"field", "constructor", "method", "function"}

\* a member one of whose types no converter takes
Fails(node) ==
    \/ node.kind = "field" /\ node.tipe = "Bad"
    \/ /\ IsCallable(node)
       /\ \/ \E i \in DOMAIN node.arguments : node.arguments[i].tipe = "Bad"
          \/ node.kind # "constructor" /\ node.result_type = "Bad"

\* the members of class c of one kind, in declaration order
NodesOf(c, kind) ==
    SelectSeq(ast, LAMBDA n : n.kind = kind /\ n.class_name = c)

ParamNames(node) == {node.arguments[i].name : i \in DOMAIN node.arguments}

\* the parameters of a definition after self
DefNames(def) == {def.args[i].name : i \in 2..Len(def.args)}

\* def is the definition built for constructor ctor
CtorDefOf(def, ctor) ==
    /\ def.form = "ctor_call"
    /\ def.callee = ctor.class_name
    /\ DefNames(def) # {}
    /\ DefNames(def) \subseteq ParamNames(ctor)

\* def is the definition built for method m
MethodDefOf(def, m) ==
    /\ def.form = "method_call"
    /\ def.callee = call_operators(m.name)
    /\ def.args[1].variant = m.class_name
    /\ DefNames(def) \subseteq ParamNames(m)

ImplClassBlocks == SelectSeq(cie.output, LAMBDA b : b.block = "class")

DeclClassBlocks == SelectSeq(cde.output, LAMBDA b : b.block = "class_decl")

MultiCtorWarnings(c) ==
    SelectSeq(warnings,
              LAMBDA w : w.warning = "more than one constructor" /\ w.name = c)

IgnoredWarnings ==
    SelectSeq(warnings, LAMBDA w : w.warning # "more than one constructor")

\* ------------------------------------------------------------------ C1

\* C1, as claimed: in every class block of the implementation artifact, a
\* class that declares no constructor has exactly the synthesized default
\* one, and a class that declares more than one has exactly one, the
\* last-declared, with exactly one multiple-constructor warning recorded.
\* (Stated for the classes all of whose constructors convert, where no
\* conversion failure plays a part.)
C1_OneConstructorEmitted ==
    \A i \in DOMAIN ImplClassBlocks :
        LET b == ImplClassBlocks[i]
            declared == NodesOf(b.name, "constructor")
        IN  /\ Len(declared) = 0 =>
                 Len(b.ctors) = 1 /\ b.ctors[1].form = "ctor_default"
            /\ (Len(declared) > 1 /\ \A j \in DOMAIN declared : ~Fails(declared[j])) =>
                 /\ Len(b.ctors) = 1
                 /\ CtorDefOf(b.ctors[1], Last(declared))
                 /\ Len(MultiCtorWarnings(b.name)) = 1

\* C1, amended: a class block holds the synthesized default constructor and
\* nothing else when no constructor of the class was kept (none declared, or
\* all dropped); otherwise it holds every kept constructor in declaration
\* order, the last-declared last; a multiple-constructor warning is recorded
\* for the class once when more than one was kept and not at all otherwise.
C1_ConstructorsOfClassBlock ==
    \A i \in DOMAIN ImplClassBlocks :
        LET b == ImplClassBlocks[i]
            declared == NodesOf(b.name, "constructor")
            kept == SelectSeq(declared, LAMBDA n : ~Fails(n))
        IN  /\ Len(kept) = 0 =>
                 /\ Len(b.ctors) = 1
                 /\ b.ctors[1].form = "ctor_default"
                 /\ b.ctors[1].callee = b.name
            /\ Len(kept) > 0 =>
                 /\ Len(b.ctors) = Len(kept)
                 /\ \A j \in DOMAIN kept : CtorDefOf(b.ctors[j], kept[j])
            /\ Len(MultiCtorWarnings(b.name)) = IF Len(kept) > 1 THEN 1 ELSE 0

\* a class with two convertible constructors and a class with none have been
\* emitted
C1_Witness ==
    /\ \E i \in DOMAIN ImplClassBlocks :
           /\ Len(ImplClassBlocks[i].ctors) > 1
           /\ Len(MultiCtorWarnings(ImplClassBlocks[i].name)) = 1
    /\ \E i \in DOMAIN ImplClassBlocks :
           /\ NodesOf(ImplClassBlocks[i].name, "constructor") = <<>>
           /\ ImplClassBlocks[i].ctors[1].form = "ctor_default"

\* ------------------------------------------------------------------ C2

\* the visit calls the implementation pass has made
ImplVisited == SubSeq(Events(ast), 1, ipos)

IsFailingVisit(ev) == ev.visit \in MemberKinds /\ Fails(ev.obj)

\* everything the implementation exporter holds that was built for a member:
\* the field records, constructors and methods of the emitted class blocks
\* and of the buffers, and the emitted functions
ImplFieldRecs ==
    Concat([i \in DOMAIN ImplClassBlocks |-> ImplClassBlocks[i].fields])
    \o cie.fields

ImplCtorDefs ==
    Concat([i \in DOMAIN ImplClassBlocks |-> ImplClassBlocks[i].ctors])
    \o cie.ctors

ImplMethodDefs ==
    Concat([i \in DOMAIN ImplClassBlocks |-> ImplClassBlocks[i].methods])
    \o cie.methods

ImplFunctionDefs == SelectSeq(cie.output, LAMBDA b : b.block = "function")

\* something built for the member is held by the exporter
InImpl(node) ==
    CASE node.kind = "field" ->
           \E i \in DOMAIN ImplFieldRecs :
               /\ ImplFieldRecs[i].class_name = node.class_name
               /\ \/ ImplFieldRecs[i].name = node.name
                  \/ ImplFieldRecs[i].getter.callee = node.name
                  \/ ImplFieldRecs[i].setter.callee = node.name
      [] node.kind = "constructor" ->
           \E i \in DOMAIN ImplCtorDefs :
               /\ ImplCtorDefs[i].form = "ctor_call"
               /\ DefNames(ImplCtorDefs[i]) \cap ParamNames(node) # {}
      [] node.kind = "method" ->
           \E i \in DOMAIN ImplMethodDefs :
               /\ ImplMethodDefs[i].args[1].variant = node.class_name
               /\ ImplMethodDefs[i].callee = call_operators(node.name)
      [] node.kind = "function" ->
           \E i \in DOMAIN ImplFunctionDefs :
               ImplFunctionDefs[i].def.callee = node.name

DeclVisited == SubSeq(Events(ast), 1, dpos)

DeclFieldRecs ==
    Concat([i \in DOMAIN DeclClassBlocks |-> DeclClassBlocks[i].fields])
    \o cde.fields

DeclCtorRecs ==
    Concat([i \in DOMAIN DeclClassBlocks |-> DeclClassBlocks[i].ctors])
    \o cde.ctors

DeclMethodRecs ==
    Concat([i \in DOMAIN DeclClassBlocks |-> DeclClassBlocks[i].methods])
    \o cde.methods

DeclFunctions == SelectSeq(cde.output, LAMBDA b : b.block = "function_decl")

\* the declaration exporter holds the structural declaration of the member
InDecl(node) ==
    CASE node.kind = "field" ->
           \E i \in DOMAIN DeclFieldRecs :
               /\ DeclFieldRecs[i].name = node.name
               /\ DeclFieldRecs[i].tipe = node.tipe
               /\ DeclFieldRecs[i].class_name = node.class_name
      [] node.kind = "constructor" ->
           \E i \in DOMAIN DeclCtorRecs :
               /\ DeclCtorRecs[i].name = node.name
               /\ DeclCtorRecs[i].args = node.arguments
      [] node.kind = "method" ->
           \E i \in DOMAIN DeclMethodRecs :
               /\ DeclMethodRecs[i].name.cname = node.name
               /\ DeclMethodRecs[i].class_name = node.class_name
               /\ DeclMethodRecs[i].result_type = node.result_type
               /\ DeclMethodRecs[i].args = node.arguments
      [] node.kind = "function" ->
           \E i \in DOMAIN DeclFunctions :
               /\ DeclFunctions[i].name = node.name
               /\ DeclFunctions[i].result_type = node.result_type
               /\ DeclFunctions[i].args = node.arguments

\* C3: the declaration exporter holds the structural declaration of every
\* member it has visited, whether its types convert or not, and once the
\* pass is over all of them are in the artifact (no buffer holds any).
C3_DeclarationKeepsEveryMember ==
    /\ \A i \in DOMAIN DeclVisited :
           DeclVisited[i].visit \in MemberKinds => InDecl(DeclVisited[i].obj)
    /\ DeclDone =>
           /\ cde.fields = <<>> /\ cde.ctors = <<>> /\ cde.methods = <<>>
           /\ \A k \in DOMAIN ast :
                  ast[k].kind \in MemberKinds => InDecl(ast[k])

\* both passes are over, and a method whose result type is not recognised is
\* declared, dropped from the implementation and named in a warning
C3_Witness ==
    /\ DeclDone
    /\ ImplDone
    /\ \E k \in DOMAIN ast :
           /\ ast[k].kind = "method"
           /\ ast[k].result_type = "Bad"
           /\ InDecl(ast[k])
           /\ ~InImpl(ast[k])
           /\ \E i \in DOMAIN IgnoredWarnings :
                  IgnoredWarnings[i].name = ast[k].name

\* ------------------------------------------------------------------ C4

DeclBlockOf(c) == SelectSeq(DeclClassBlocks, LAMBDA d : d.name = c)

\* the members of implementation class block b have members of the same
\* name in declaration class block d
FieldsMatch(b, d) ==
    \A i \in DOMAIN b.fields :
        \E j \in DOMAIN d.fields :
            /\ d.fields[j].name = b.fields[i].name
            /\ d.fields[j].name = b.fields[i].getter.callee
            /\ d.fields[j].name = b.fields[i].setter.callee

MethodsMatch(b, d) ==
    \A i \in DOMAIN b.methods :
        \E j \in DOMAIN d.methods : d.methods[j].name.decl = b.methods[i].callee

CtorMatches(ctor, d) ==
    \E j \in DOMAIN d.ctors : d.ctors[j].name = ctor.callee

\* C4, as claimed: after both passes every class block of the implementation
\* artifact has a class block of the same name in the declaration artifact,
\* and every constructor, method and field accessor of the former has a
\* member of the same name in the latter.
C4_EveryImplMemberDeclared ==
    (DeclDone /\ ImplDone) =>
        \A i \in DOMAIN ImplClassBlocks :
            LET b == ImplClassBlocks[i]
            IN  /\ Len(DeclBlockOf(b.name)) = 1
                /\ FieldsMatch(b, DeclBlockOf(b.name)[1])
                /\ MethodsMatch(b, DeclBlockOf(b.name)[1])
                /\ \A k \in DOMAIN b.ctors :
                       CtorMatches(b.ctors[k], DeclBlockOf(b.name)[1])

\* C4, amended: the same, but for the default constructor that the
\* implementation pass synthesizes when it kept no constructor of the class:
\* the declaration class block need not declare a constructor for it.
C4_ImplMembersDeclaredButDefaultCtor ==
    (DeclDone /\ ImplDone) =>
        \A i \in DOMAIN ImplClassBlocks :
            LET b == ImplClassBlocks[i]
            IN  /\ Len(DeclBlockOf(b.name)) = 1
                /\ FieldsMatch(b, DeclBlockOf(b.name)[1])
                /\ MethodsMatch(b, DeclBlockOf(b.name)[1])
                /\ \A k \in DOMAIN b.ctors :
                       \/ b.ctors[k].form = "ctor_default"
                       \/ CtorMatches(b.ctors[k], DeclBlockOf(b.name)[1])

\* both passes are over and a class block of the implementation artifact
\* holds a field, a constructor built from a declared one and the call
\* operator
C4_Witness ==
    /\ DeclDone
    /\ ImplDone
    /\ \E i \in DOMAIN ImplClassBlocks :
           /\ \E k \in DOMAIN ImplClassBlocks[i].ctors :
                  ImplClassBlocks[i].ctors[k].form = "ctor_call"
           /\ \E k \in DOMAIN ImplClassBlocks[i].methods :
                  ImplClassBlocks[i].methods[k].name = "__call__"
    /\ \E i \in DOMAIN ImplClassBlocks : ImplClassBlocks[i].fields # <<>>

\* ------------------------------------------------------------------ C9

\* C9: however the visit calls of the two passes interleave, each exporter
\* (and, for the implementation pass, the warnings and the includes) is after
\* its first n visit calls what those n calls make of it when nothing runs in
\* between; so the two artifacts are those of the passes run one after the
\* other, in either order.
C9_PassesDoNotInterfere ==
    LET alone == ImplPass(ImplStart, ImplVisited, Classes(ast))
    IN  /\ cde = DeclPass(CDE_init, DeclVisited)
        /\ cie = alone.self
        /\ warnings = alone.warned
        /\ includes = alone.added

\* both passes are under way, each inside a class whose constructor it has
\* buffered, and the implementation pass has written to includes
C9_Witness ==
    /\ 0 < dpos /\ ~DeclDone
    /\ 0 < ipos /\ ~ImplDone
    /\ dpos # ipos
    /\ cde.ctors # <<>>
    /\ cie.ctors # <<>>
    /\ includes # <<>>

\* ----------------------------------------------------------------- C10

\* the places of the class visits among the events
ClassVisits ==
    SelectSeq([i \in 1..Len(Events(ast)) |-> i],
              LAMBDA i : Events(ast)[i].visit = "class")

\* the members of one kind visited after the (k-1)th class visit and before
\* the kth, in the order of their visits
Since(k, kind) ==
    LET lo == IF k = 1 THEN 0 ELSE ClassVisits[k - 1]
        visits == SelectSeq(SubSeq(Events(ast), lo + 1, ClassVisits[k] - 1),
                            LAMBDA ev : ev.visit = kind)
    IN  [i \in DOMAIN visits |-> visits[i].obj]

Kept(nodes) == SelectSeq(nodes, LAMBDA n : ~Fails(n))

DeclBlockExact(k) ==
    LET b == DeclClassBlocks[k]
        fields == Since(k, "field")
        ctors == Since(k, "constructor")
        methods == Since(k, "method")
    IN  /\ Len(b.fields) = Len(fields)
        /\ \A j \in DOMAIN fields :
               /\ b.fields[j].name = fields[j].name
               /\ b.fields[j].class_name = b.name
        /\ Len(b.ctors) = Len(ctors)
        /\ \A j \in DOMAIN ctors :
               /\ b.ctors[j].args = ctors[j].arguments
               /\ b.ctors[j].class_name = b.name
        /\ Len(b.methods) = Len(methods)
        /\ \A j \in DOMAIN methods :
               /\ b.methods[j].name.cname = methods[j].name
               /\ b.methods[j].args = methods[j].arguments
               /\ b.methods[j].class_name = b.name

ImplBlockExact(k) ==
    LET b == ImplClassBlocks[k]
        fields == Kept(Since(k, "field"))
        ctors == Kept(Since(k, "constructor"))
        methods == Kept(Since(k, "method"))
    IN  /\ Len(b.fields) = Len(fields)
        /\ \A j \in DOMAIN fields :
               /\ b.fields[j].name = fields[j].name
               /\ b.fields[j].class_name = b.name
        /\ IF ctors = <<>>
           THEN b.ctors = <<ctor_default_def([name |-> b.name])>>
           ELSE /\ Len(b.ctors) = Len(ctors)
                /\ \A j \in DOMAIN ctors : CtorDefOf(b.ctors[j], ctors[j])
        /\ \A j \in DOMAIN b.ctors : b.ctors[j].callee = b.name
        /\ Len(b.methods) = Len(methods)
        /\ \A j \in DOMAIN methods : MethodDefOf(b.methods[j], methods[j])
        /\ \A j \in DOMAIN b.methods : b.methods[j].args[1].variant = b.name

\* C10: in both exporters the fields, ctors and methods buffers are empty
\* right after a visit_class, and the class block it emitted holds exactly
\* the members accumulated since the visit_class before it, in the order of
\* their visits, none of them a member of another class; the arguments buffer
\* of the declaration exporter is empty right after the visit of a
\* constructor, a method or a function.
C10_BuffersResetAtClass ==
    /\ (dpos > 0 /\ Events(ast)[dpos].visit = "class") =>
           cde.fields = <<>> /\ cde.ctors = <<>> /\ cde.methods = <<>>
    /\ (ipos > 0 /\ Events(ast)[ipos].visit = "class") =>
           cie.fields = <<>> /\ cie.ctors = <<>> /\ cie.methods = <<>>
    /\ (dpos > 0 /\ Events(ast)[dpos].visit \in {"constructor", "method", "function"}) =>
           cde.arguments = <<>>
    /\ \A k \in DOMAIN DeclClassBlocks : DeclBlockExact(k)
    /\ \A k \in DOMAIN ImplClassBlocks : ImplBlockExact(k)

\* both exporters have just emitted the block of a second class, after a
\* first class that had a method
C10_Witness ==
    /\ dpos > 0 /\ Events(ast)[dpos].visit = "class"
    /\ ipos > 0 /\ Events(ast)[ipos].visit = "class"
    /\ Len(DeclClassBlocks) = 2
    /\ Len(ImplClassBlocks) = 2
    /\ DeclClassBlocks[1].methods # <<>>
    /\ ImplClassBlocks[1].methods # <<>>

\* ------------------------------------------------------------------ C5

GivenFiles == AsList(wr.filenames_arg)

\* C5: a run with two or more input files and no module name parses no
\* file, constructs no exporter, produces and writes no artifact and runs no
\* compiler: it goes from the name check to the ValueError and nowhere else.
C5_AbortsBeforeParsing ==
    (wr # Idle /\ Len(GivenFiles) >= 2 /\ wr.modulename_arg = NoName) =>
        /\ wr.asts = <<>>
        /\ wr.results = {}
        /\ wr.written = {}
        /\ wr.cythonized = {}
        /\ wr.pc \in {"start", "name", "raised"}
        /\ wr.pc = "raised" => wr.raised = "ValueError"

\* such a run has ended in the ValueError
C5_Witness ==
    /\ wr # Idle
    /\ Len(GivenFiles) >= 2
    /\ wr.modulename_arg = NoName
    /\ wr.pc = "raised"
    /\ wr.raised = "ValueError"
    /\ wr.written = {}

\* ------------------------------------------------------------------ C6

\* the places of character ch in text s
Places(s, ch) == {i \in DOMAIN s : s[i] = ch}

Max(S) == CHOOSE x \in S : \A y \in S : y <= x

Min(S) == CHOOSE x \in S : \A y \in S : x <= y

\* the text after the last path separator
BaseName(filename) ==
    IF Places(filename, "/") = {} THEN filename
    ELSE SubSeq(filename, Max(Places(filename, "/")) + 1, Len(filename))

\* the base name without its extension, the text from its last dot on
WithoutExtension(base) ==
    IF Places(base, ".") = {} THEN base
    ELSE SubSeq(base, 1, Max(Places(base, ".")) - 1)

\* the base name up to its first dot
UpToFirstDot(base) ==
    IF Places(base, ".") = {} THEN base
    ELSE SubSeq(base, 1, Min(Places(base, ".")) - 1)

\* every dot of the base name stands between two characters that are no dots
DotsInside(base) ==
    \A i \in Places(base, ".") :
        /\ i > 1 /\ base[i - 1] # "."
        /\ i < Len(base) /\ base[i + 1] # "."

NameSettled == wr # Idle /\ wr.pc \notin {"start", "name"}

OneFileNoName == Len(GivenFiles) = 1 /\ wr.modulename_arg = NoName

\* C6, as claimed: with one input file (a string or a one-element list) and
\* no module name, the module name is the file's base name without its
\* directory path and without its extension; a module name that is supplied
\* is used unchanged.  (Stated for the base names in which every dot stands
\* between two other characters, where there is no doubt about what the
\* extension is.)
C6_BaseNameWithoutExtension ==
    NameSettled =>
        /\ (OneFileNoName /\ DotsInside(BaseName(GivenFiles[1]))) =>
               wr.modulename = WithoutExtension(BaseName(GivenFiles[1]))
        /\ wr.modulename_arg # NoName => wr.modulename = wr.modulename_arg

\* C6, amended: the module name is the file's base name without its
\* directory path, cut at its FIRST dot (which strips the extension exactly
\* when the base name holds at most one dot); a module name that is supplied
\* is used unchanged.
C6_BaseNameUpToFirstDot ==
    NameSettled =>
        /\ OneFileNoName => wr.modulename = UpToFirstDot(BaseName(GivenFiles[1]))
        /\ wr.modulename_arg # NoName => wr.modulename = wr.modulename_arg

\* a module name has been derived from a file given as a string, with a
\* directory and an extension
C6_Witness ==
    /\ NameSettled
    /\ OneFileNoName
    /\ wr.filenames_arg.is_str
    /\ Places(GivenFiles[1], "/") # {}
    /\ Places(BaseName(GivenFiles[1]), ".") # {}
    /\ wr.modulename # <<>>
    /\ wr.pc = "parse"

\* ------------------------------------------------------------------ C7

Consumed(type_converters) ==
    SumSeq([k \in DOMAIN type_converters |-> type_converters[k].n_cpp_args])

\* the converters that take declared parameter j
Covering(j) ==
    {k \in DOMAIN fd.type_converters :
        /\ fd.type_converters[k].index <= j
        /\ j < fd.type_converters[k].index + fd.type_converters[k].n_cpp_args}

\* C7: in a callable that has been built the raw-parameter counts of the
\* input converters add up to the number of declared arguments and every
\* declared parameter is taken by exactly one converter; inside the loop the
\* parameters consumed so far are those passed plus those still to skip.
C7_ConsumptionEqualsArity ==
    fd # Idle =>
        /\ fd.pc = "loop" =>
               Consumed(fd.type_converters) = (fd.i - 1) + fd.skip
        /\ fd.pc = "built" =>
               /\ Consumed(fd.type_converters) = Len(fd.arguments)
               /\ \A j \in DOMAIN fd.arguments : Cardinality(Covering(j)) = 1

\* a callable of three declared parameters has been built with an
\* array+length converter
C7_Witness ==
    /\ fd # Idle
    /\ fd.pc = "built"
    /\ Len(fd.arguments) = 3
    /\ Len(fd.type_converters) = 2
    /\ \E k \in DOMAIN fd.type_converters :
           fd.type_converters[k].variant = "ArrayPointer"

\* ------------------------------------------------------------------ C8

\* text part occurs in text s
Contains(s, part) ==
    \E i \in 1..(Len(s) - Len(part) + 1) : SubSeq(s, i, i + Len(part) - 1) = part

IsSuffix(part, s) ==
    Len(part) <= Len(s) /\ SubSeq(s, Len(s) - Len(part) + 1, Len(s)) = part

\* the template part of a raw type: from its first "<" on
TemplatePart(t) ==
    IF Places(t, "<") = {} THEN <<>> ELSE SubSeq(t, Min(Places(t, "<")), Len(t))

\* the template part in bracket notation, character by character
InBrackets(part) ==
    [i \in DOMAIN part |-> IF part[i] = "<" THEN "["
                           ELSE IF part[i] = ">" THEN "]" ELSE part[i]]

Const == <<"c", "o", "n", "s", "t", " ">>

Ref == <<" ", "&">>

Letters == {"n", "v", "d"}

\* every "::" of t stands between two names
Qualified(t) ==
    \A i \in 1..(Len(t) - 1) :
        (t[i] = ":" /\ t[i + 1] = ":") =>
            /\ i > 1 /\ t[i - 1] \in Letters
            /\ i + 2 <= Len(t) /\ t[i + 2] \in Letters

\* C8, as claimed: typename of typename(t) is typename(t), and the template
\* arguments of t are in the result in their original order, for every raw
\* type string t.  (Stated for the strings in which every "::" stands between
\* two names.)
C8_Idempotent ==
    (tn # Idle /\ tn.pc = "twice" /\ Qualified(tn.tname)) =>
        /\ tn.again = tn.cython_tname
        /\ IsSuffix(InBrackets(Replace(Replace(TemplatePart(tn.tname), Const, <<>>),
                                       Ref, <<>>)),
                    tn.cython_tname)

\* C8, amended: typename(t) holds no "::", "<" or ">", and typename of it is
\* typename(t) again unless a "const " or " &" is left in it (each is removed
\* in one pass, and a removal can put a new one together); the template part
\* of t is in the result as it stands in t, with the brackets rewritten, when
\* it holds no "const ", " &" or "::".
C8_IdempotentWhenNothingLeft ==
    (tn # Idle /\ tn.pc = "twice") =>
        /\ ~Contains(tn.cython_tname, <<":", ":">>)
        /\ Places(tn.cython_tname, "<") = {}
        /\ Places(tn.cython_tname, ">") = {}
        /\ (~Contains(tn.cython_tname, Const) /\ ~Contains(tn.cython_tname, Ref)) =>
               tn.again = tn.cython_tname
        /\ (/\ ~Contains(TemplatePart(tn.tname), Const)
            /\ ~Contains(TemplatePart(tn.tname), Ref)
            /\ ~Contains(TemplatePart(tn.tname), <<":", ":">>)) =>
               IsSuffix(InBrackets(TemplatePart(tn.tname)), tn.cython_tname)

\* a const reference to a template type has been normalised twice
C8_Witness ==
    /\ tn # Idle
    /\ tn.pc = "twice"
    /\ tn.tname = <<"c", "o", "n", "s", "t", " ", "v", "<", "d", ">", " ", "&">>
    /\ tn.cython_tname = <<"v", "[", "d", "]">>
    /\ tn.again = tn.cython_tname

\* ----------------------------------------------------------------- C11

\* the classes the declaration exporter has visited, in the order of the visits
DeclClassesVisited ==
    LET visits == SelectSeq(DeclVisited, LAMBDA ev : ev.visit = "class")
    IN  [i \in DOMAIN visits |-> visits[i].obj.name]

\* the kth class visited accumulated no field, no constructor and no method
AccumulatedNothing(k) ==
    /\ Since(k, "field") = <<>>
    /\ Since(k, "constructor") = <<>>
    /\ Since(k, "method") = <<>>

\* C11: the class blocks of the declaration artifact are, one for one and in
\* order, the classes visited so far: every class visited has exactly one
\* class block, a class without members too; the block is marked empty_body
\* exactly when the class accumulated no field, no constructor and no method
\* before its visit, and then the block holds no member.
C11_OneDeclBlockPerClass ==
    /\ Len(DeclClassBlocks) = Len(DeclClassesVisited)
    /\ \A k \in DOMAIN DeclClassesVisited :
           /\ DeclClassBlocks[k].name = DeclClassesVisited[k]
           /\ Len(DeclBlockOf(DeclClassesVisited[k])) = 1
           /\ DeclClassBlocks[k].empty_body <=> AccumulatedNothing(k)
           /\ DeclClassBlocks[k].empty_body <=>
                  /\ DeclClassBlocks[k].fields = <<>>
                  /\ DeclClassBlocks[k].ctors = <<>>
                  /\ DeclClassBlocks[k].methods = <<>>

\* the declaration exporter has visited a class without members and a class
\* whose only members are constructors, and emitted a block for each
C11_Witness ==
    /\ Len(DeclClassesVisited) = 2
    /\ \E k \in DOMAIN DeclClassBlocks : DeclClassBlocks[k].empty_body
    /\ \E k \in DOMAIN DeclClassBlocks :
           /\ ~DeclClassBlocks[k].empty_body
           /\ DeclClassBlocks[k].ctors # <<>>
           /\ DeclClassBlocks[k].fields = <<>>
           /\ DeclClassBlocks[k].methods = <<>>

====
